---- MODULE Spec2Model ----
(***************************************************************************)
(* Model of primitives/arithmetic/src/helpers_128bit.rs: gcd, sqrt,        *)
(* multiply_by_rational, the Double128 type and                            *)
(* multiply_by_rational_with_rounding.                                     *)
(*                                                                         *)
(* The machine word (u128) is scaled to Bits bits, a u64 half to HalfBits  *)
(* and a biguint::Single (u32) limb to LimbBits, keeping the source's      *)
(* 4 : 2 : 1 ratio.  All wrapping operations wrap modulo 2^Bits.           *)
(***************************************************************************)
EXTENDS Integers, Sequences, FiniteSets, TLC

\* ------------------------------------------------------------------------
\* Widths and input sets
\* ------------------------------------------------------------------------
LimbBits == 2
Near == 1
Dense == 40

LimbsPerWord == 4
HalfBits == 2 * LimbBits
Bits == LimbsPerWord * LimbBits
Modulus == 2 ^ Bits
HalfModulus == 2 ^ HalfBits
LimbModulus == 2 ^ LimbBits
MAX == Modulus - 1

Word == 0 .. MAX

\* Inputs: every word within Near of a power of two (0, 1, 2, 4, ..., 2^Bits).
Samples ==
  { v \in Word : v <= Near \/ \E k \in 0 .. Bits : v - 2 ^ k \in (0 - Near) .. Near }

\* The samples and every word up to Dense.
DenseSamples == Samples \cup { v \in Word : v <= Dense }

Roundings == {"Up", "Down", "Nearest"}

\* ------------------------------------------------------------------------
\* mod double128: helpers
\* ------------------------------------------------------------------------
low_64(v) == v % HalfModulus

high_64(v) == v \div HalfModulus

neg128(v) == ((MAX - v) + 1) % Modulus

div128(v) == ((neg128(v) \div v) + 1) % Modulus

\* mod128, the reduction by the divisor forgotten: 2^128 - a.
mod128_unreduced(v) == neg128(v)

mod128(v) == neg128(v) % v

\* ------------------------------------------------------------------------
\* Double128 { high, low }
\* ------------------------------------------------------------------------
Double128 == [high : Word, low : Word]

\* Option / Result values, and the outcome of panic!().
None == [tag |-> "None"]
Some(v) == [tag |-> "Some", val |-> v]
Ok(v) == [tag |-> "Ok", val |-> v]
Err == [tag |-> "Err"]
Panic == [tag |-> "panic"]

try_into_u128(d) == IF d.high = 0 THEN Ok(d.low) ELSE Err

zero == [high |-> 0, low |-> 0]

left_shift_64(scaled_value) ==
  [high |-> scaled_value \div HalfModulus,
   low  |-> (scaled_value * HalfModulus) % Modulus]

from_low(low) == [high |-> 0, low |-> low]

low_part(d) == [high |-> 0, low |-> d.low]

\* add, the carry out of the low limb dropped.
add_without_carry(d, e) ==
  [high |-> (d.high + e.high) % Modulus, low |-> (d.low + e.low) % Modulus]

add(d, e) ==
  LET sum   == d.low + e.low
      carry == IF sum > MAX THEN 1 ELSE 0
  IN  [high |-> (d.high + e.high + carry) % Modulus, low |-> sum % Modulus]

\* TRUE iff the high limb of add(d, e) wrapped.
add_wraps(d, e) ==
  LET carry == IF d.low + e.low > MAX THEN 1 ELSE 0
  IN  d.high + e.high + carry > MAX

product_of(m, k) ==
  LET a_low  == low_64(m)
      a_high == high_64(m)
      b_low  == low_64(k)
      b_high == high_64(k)
      f  == a_low * b_low
      o  == a_low * b_high
      i  == a_high * b_low
      l  == a_high * b_high
      fl == [high |-> l, low |-> f]
  IN  add(add(fl, left_shift_64(i)), left_shift_64(o))

\* TRUE iff one of the two additions of product_of(m, k) wrapped.
product_of_wraps(m, k) ==
  LET fl == [high |-> high_64(m) * high_64(k), low |-> low_64(m) * low_64(k)]
      i  == left_shift_64(high_64(m) * low_64(k))
      o  == left_shift_64(low_64(m) * high_64(k))
  IN  add_wraps(fl, i) \/ add_wraps(add(fl, i), o)

\* Body of `while self.high != 0`: the new accumulator x ...
fold_x(d, acc, rhs) == add(acc, product_of(d.high, div128(rhs)))

\* fold_self, the low limb of the dividend dropped.
fold_self_without_low(d, rhs) == product_of(d.high, mod128(rhs))

\* ... and the new dividend.
fold_self(d, rhs) == add(product_of(d.high, mod128(rhs)), low_part(d))

\* TRUE iff an addition of one loop iteration wrapped.
fold_wraps(d, acc, rhs) ==
  \/ product_of_wraps(d.high, div128(rhs))
  \/ add_wraps(acc, product_of(d.high, div128(rhs)))
  \/ product_of_wraps(d.high, mod128(rhs))
  \/ add_wraps(product_of(d.high, mod128(rhs)), low_part(d))

\* The expression returned after the loop.
div_finish(d, acc, rhs) ==
  [quot |-> add(acc, from_low(d.low \div rhs)), rem |-> d.low % rhs]

RECURSIVE div_loop(_, _, _)
div_loop(d, acc, rhs) ==
  IF d.high # 0
    THEN div_loop(fold_self(d, rhs), fold_x(d, acc, rhs), rhs)
    ELSE div_finish(d, acc, rhs)

div(d, rhs) ==
  IF rhs = 1 THEN [quot |-> d, rem |-> 0] ELSE div_loop(d, zero, rhs)

\* Unbounded value of a Double128.
Val(d) == d.high * Modulus + d.low

\* ------------------------------------------------------------------------
\* multiply_by_rational_with_rounding
\* ------------------------------------------------------------------------
\* The `match r { ... }` deciding whether 1 is added to the quotient.
rounds_up(rounding, remainder, d) ==
  CASE rounding = "Up"      -> remainder > 0
    [] rounding = "Nearest" -> remainder >= (d \div 2) + (d % 2)
    [] rounding = "Down"    -> FALSE

\* checked_add as a wrapping addition.
wrapping_add(v, w) == Some((v + w) % Modulus)

\* u128::checked_add
checked_add(v, w) == IF v + w > MAX THEN None ELSE Some(v + w)

\* The function after its `if c == 0 { panic!(..) }`.
rounded_quotient(m, k, d, rounding) ==
  LET qr  == div(product_of(m, k), d)
      res == try_into_u128(qr.quot)
  IN  IF res.tag = "Err"
        THEN None
        ELSE IF rounds_up(rounding, qr.rem, d)
               THEN checked_add(res.val, 1)
               ELSE Some(res.val)

\* The function with multiply_by_rational's shortcut for a zero factor put
\* before the test of the divisor.
rounding_with_zero_shortcut(m, k, d, rounding) ==
  IF m = 0 \/ k = 0
    THEN Some(0)
    ELSE IF d = 0 THEN Panic ELSE rounded_quotient(m, k, d, rounding)

multiply_by_rational_with_rounding(m, k, d, rounding) ==
  IF d = 0 THEN Panic ELSE rounded_quotient(m, k, d, rounding)

\* ------------------------------------------------------------------------
\* biguint::BigUint: limbs of LimbBits bits, most significant first
\* ------------------------------------------------------------------------
RECURSIVE big_val(_)
big_val(limbs) ==
  IF limbs = <<>>
    THEN 0
    ELSE (big_val(SubSeq(limbs, 1, Len(limbs) - 1)) * LimbModulus) + limbs[Len(limbs)]

RECURSIVE lstrip(_)
lstrip(limbs) ==
  IF Len(limbs) > 1 /\ limbs[1] = 0 THEN lstrip(Tail(limbs)) ELSE limbs

\* The k limbs of v.
RECURSIVE limbs_of(_, _)
limbs_of(v, k) ==
  IF k = 0 THEN <<>> ELSE Append(limbs_of(v \div LimbModulus, k - 1), v % LimbModulus)

big_mul(p, q) == limbs_of(big_val(p) * big_val(q), Len(p) + Len(q))

big_add(p, q) ==
  limbs_of(big_val(p) + big_val(q), 1 + (IF Len(p) > Len(q) THEN Len(p) ELSE Len(q)))

big_div_unit(p, single) ==
  LET d == IF single < 1 THEN 1 ELSE single
  IN  limbs_of(big_val(p) \div d, Len(p))

\* Some((quotient, remainder)), or None for a zero divisor.
big_div(p, q) ==
  IF big_val(q) = 0
    THEN None
    ELSE Some([q |-> lstrip(limbs_of(big_val(p) \div big_val(q), Len(p))),
               r |-> lstrip(limbs_of(big_val(p) % big_val(q), Len(q)))])

\* TryFrom<BigUint> for u128
big_try_into(p) ==
  IF Len(lstrip(p)) > LimbsPerWord THEN Err ELSE Ok(big_val(p))

\* biguint::split: a half word into its (high, low) limbs
big_split(v) == <<v \div LimbModulus, v % LimbModulus>>

\* ------------------------------------------------------------------------
\* split, to_big_uint, multiply_by_rational
\* ------------------------------------------------------------------------
split(v) == <<v \div HalfModulus, v % HalfModulus>>

to_big_uint(v) ==
  LET xh == split(v)[1]
      xl == split(v)[2]
  IN  lstrip(<<big_split(xh)[1], big_split(xh)[2], big_split(xl)[1], big_split(xl)[2]>>)

\* u128::checked_mul
checked_mul(v, w) == IF v * w > MAX THEN None ELSE Some(v * w)

\* `c = c.max(1)` and `if b > a { mem::swap(&mut a, &mut b) }`
clamp_and_swap(m, k, d) ==
  [a |-> IF k > m THEN k ELSE m,
   b |-> IF k > m THEN m ELSE k,
   c |-> IF d < 1 THEN 1 ELSE d]

\* pre_divide, `c = 1` forgotten in its second branch.
pre_divide_keeps_c(t) ==
  IF t.a % t.c = 0
    THEN [a |-> t.a \div t.c, b |-> t.b, c |-> 1]
    ELSE IF t.b % t.c = 0
           THEN [a |-> t.a, b |-> t.b \div t.c, c |-> t.c]
           ELSE t

\* "Attempt to perform the division first"
pre_divide(t) ==
  IF t.a % t.c = 0
    THEN [a |-> t.a \div t.c, b |-> t.b, c |-> 1]
    ELSE IF t.b % t.c = 0
           THEN [a |-> t.a, b |-> t.b \div t.c, c |-> 1]
           ELSE t

\* The `else` branch of `if let Some(x) = a.checked_mul(b)`.
big_fallback(t) ==
  LET a_num == to_big_uint(t.a)
      b_num == to_big_uint(t.b)
      c_num == to_big_uint(t.c)
      ab    == lstrip(big_mul(a_num, b_num))
      q     == IF Len(c_num) = 1
                 THEN big_div_unit(ab, t.c % LimbModulus)
                 ELSE LET d  == big_div(ab, c_num)
                          qr == IF d.tag = "Some" THEN d.val
                                ELSE [q |-> <<0>>, r |-> <<0>>]
                          rr == big_try_into(qr.r).val
                      IN  IF rr > t.c \div 2
                            THEN big_add(qr.q, to_big_uint(1))
                            ELSE qr.q
  IN  big_try_into(lstrip(q))

\* The arguments as they reach `a.checked_mul(b)`.
reduced(m, k, d) == pre_divide(clamp_and_swap(m, k, d))

multiply_by_rational(m, k, d) ==
  IF m = 0 \/ k = 0
    THEN Ok(0)
    ELSE LET t == reduced(m, k, d)
             p == checked_mul(t.a, t.b)
         IN  IF p.tag = "Some" THEN Ok(p.val \div t.c) ELSE big_fallback(t)

\* ------------------------------------------------------------------------
\* gcd and sqrt
\* ------------------------------------------------------------------------
\* TRUE iff gcd(m, k) returns without a recursive call (the first two arms).
gcd_returns(m, k) == m = k \/ m = 0 \/ k = 0

\* The value returned by the first two arms of the match.
gcd_base(m, k) == IF m = k THEN k ELSE IF m = 0 THEN k ELSE m

\* gcd_call, the `<< 1` of the even/even arm forgotten.
gcd_call_without_shl(m, k) ==
  CASE m % 2 = 0 /\ k % 2 = 1 -> [a |-> m \div 2, b |-> k, shl |-> FALSE]
    [] m % 2 = 1 /\ k % 2 = 0 -> [a |-> k \div 2, b |-> m, shl |-> FALSE]
    [] m % 2 = 0 /\ k % 2 = 0 -> [a |-> m \div 2, b |-> k \div 2, shl |-> FALSE]
    [] m % 2 = 1 /\ k % 2 = 1 ->
         LET lo == IF m < k THEN m ELSE k
             hi == IF m < k THEN k ELSE m
         IN  [a |-> (hi - lo) \div 2, b |-> lo, shl |-> FALSE]

\* The recursive call of the other arms: its operands, and whether the
\* caller shifts the result left by one.
gcd_call(m, k) ==
  CASE m % 2 = 0 /\ k % 2 = 1 -> [a |-> m \div 2, b |-> k, shl |-> FALSE]
    [] m % 2 = 1 /\ k % 2 = 0 -> [a |-> k \div 2, b |-> m, shl |-> FALSE]
    [] m % 2 = 0 /\ k % 2 = 0 -> [a |-> m \div 2, b |-> k \div 2, shl |-> TRUE]
    [] m % 2 = 1 /\ k % 2 = 1 ->
         LET lo == IF m < k THEN m ELSE k
             hi == IF m < k THEN k ELSE m
         IN  [a |-> (hi - lo) \div 2, b |-> lo, shl |-> FALSE]

\* u128 `<< 1`
shl1(v) == (v * 2) % Modulus

RECURSIVE bit_length(_)
bit_length(v) == IF v = 0 THEN 0 ELSE 1 + bit_length(v \div 2)

\* u128::leading_zeros
leading_zeros(v) == Bits - bit_length(v)

\* sqrt_shift, the `& !1` forgotten.
sqrt_shift_unmasked(v) == (leading_zeros(0) - 1) - leading_zeros(v)

\* sqrt: `(max_shift - n.leading_zeros()) & !1`
sqrt_shift(v) ==
  LET max_shift == leading_zeros(0) - 1
      s == max_shift - leading_zeros(v)
  IN  s - (s % 2)

\* ------------------------------------------------------------------------
\* State
\* ------------------------------------------------------------------------
VARIABLES
  pc,        \* position of the running function
  a, b, c,   \* arguments of gcd / multiply_by_rational(_with_rounding)
  r,         \* the Rounding argument
  out,       \* value returned by the function under pc
  self,      \* Double128::div: the (mutable) dividend `self`
  rhs,       \* Double128::div: the divisor
  x,         \* Double128::div: the running quotient `x`
  self0,     \* the dividend div was called with
  iters,     \* number of iterations of `while self.high != 0` so far
  wrapped,   \* TRUE once an addition overflowed (Double128 high limb, sqrt)
  a0, b0,    \* the arguments the outermost gcd was called with
  shifts,    \* gcd: number of enclosing calls that still apply `<< 1`
  n,         \* sqrt: the (mutable) argument `n`
  n0,        \* the argument sqrt was called with
  bit,       \* sqrt: `bit`
  result     \* sqrt: `result`

mulVars  == <<a, b, c, r>>
divVars  == <<self, rhs, x, self0, iters, wrapped>>
gcdVars  == <<a0, b0, shifts>>
sqrtVars == <<n, n0, bit, result>>
vars == <<pc, out, mulVars, divVars, gcdVars, sqrtVars>>

NoArgs  == a = 0 /\ b = 0 /\ c = 0 /\ r = "Down"
NoDiv   == /\ self = zero /\ rhs = 1 /\ x = zero /\ self0 = zero
           /\ iters = 0 /\ wrapped = FALSE
NoGcd   == a0 = 0 /\ b0 = 0 /\ shifts = 0
NoSqrt  == n = 0 /\ n0 = 0 /\ bit = 0 /\ result = 0

\* ------------------------------------------------------------------------
\* Double128::div, one loop iteration per step
\* ------------------------------------------------------------------------
InitDiv ==
  /\ pc = "idle" /\ out = None
  /\ NoArgs /\ NoDiv /\ NoGcd /\ NoSqrt

\* div called on an arbitrary Double128 { high, low }.
DivOfParts ==
  /\ pc = "idle"
  /\ \E high \in Samples, low \in Samples, d \in Samples \ {0} :
       /\ self' = [high |-> high, low |-> low]
       /\ self0' = [high |-> high, low |-> low]
       /\ rhs' = d
  /\ pc' = "div"
  /\ UNCHANGED <<out, mulVars, x, iters, wrapped, gcdVars, sqrtVars>>

\* div called on Double128::product_of(a, b), as by
\* multiply_by_rational_with_rounding.
DivOfProduct ==
  /\ pc = "idle"
  /\ \E m \in Samples, k \in Samples, d \in Samples \ {0} :
       /\ a' = m /\ b' = k /\ c' = d
       /\ self' = product_of(m, k)
       /\ self0' = product_of(m, k)
       /\ wrapped' = product_of_wraps(m, k)
       /\ rhs' = d
  /\ pc' = "div"
  /\ UNCHANGED <<out, r, x, iters, gcdVars, sqrtVars>>

\* `if rhs == 1 { return (self, 0) }`, else set up q, r and x.
DivEnter ==
  /\ pc = "div"
  /\ IF rhs = 1
       THEN /\ out' = [quot |-> self, rem |-> 0]
            /\ pc' = "done"
       ELSE /\ out' = out
            /\ pc' = "loop"
  /\ x' = zero
  /\ UNCHANGED <<mulVars, self, rhs, self0, iters, wrapped, gcdVars, sqrtVars>>

\* One iteration of `while self.high != 0`.
DivFold ==
  /\ pc = "loop"
  /\ self.high # 0
  /\ x' = fold_x(self, x, rhs)
  /\ self' = fold_self(self, rhs)
  /\ wrapped' = (wrapped \/ fold_wraps(self, x, rhs))
  /\ iters' = iters + 1
  /\ UNCHANGED <<pc, out, mulVars, rhs, self0, gcdVars, sqrtVars>>

\* Loop exit and the final `(x.add(from_low(self.low / rhs)), self.low % rhs)`.
DivFinish ==
  /\ pc = "loop"
  /\ self.high = 0
  /\ out' = div_finish(self, x, rhs)
  /\ wrapped' = (wrapped \/ add_wraps(x, from_low(self.low \div rhs)))
  /\ pc' = "done"
  /\ UNCHANGED <<mulVars, self, rhs, x, self0, iters, gcdVars, sqrtVars>>

NextDiv == DivOfParts \/ DivOfProduct \/ DivEnter \/ DivFold \/ DivFinish

SpecDiv == InitDiv /\ [][NextDiv]_vars

\* ------------------------------------------------------------------------
\* Properties of Double128::div
\* ------------------------------------------------------------------------
BitLen(v) == bit_length(v)

\* A step that is one iteration of the fold loop.
IsFold == pc = "loop" /\ iters' = iters + 1

\* Width of a Double128 over the width of a limb of it (256 / 128).
WidthRatio == (2 * Bits) \div Bits

\* C8: for every Double128 x and divisor d >= 1, div(x, d) returns (q, r) with
\* q * d + r = x and r < d (q = x \div d, r = x % d); for d = 1 it returns
\* (x, 0); and no addition inside div or product_of wraps the high limb.
C8_DivExact ==
  /\ ~wrapped
  /\ pc = "done" =>
       /\ Val(out.quot) = Val(self0) \div rhs
       /\ out.rem = Val(self0) % rhs
       /\ rhs = 1 => out = [quot |-> self0, rem |-> 0]

C8_Witness ==
  /\ pc = "done" /\ rhs >= 2 /\ iters >= 2
  /\ out.quot.high # 0 /\ out.rem # 0
  /\ self0 # product_of(a, b)

\* C9: every iteration of the fold loop replaces high * 2^128 + low by
\* high * (2^128 mod d) + low, which is strictly smaller, so the loop
\* terminates: the iterations made never outnumber what the value has lost.
C9_FoldTerminates ==
  /\ [][IsFold => /\ Val(self') = self.high * (Modulus % rhs) + self.low
                  /\ Val(self') < Val(self)]_vars
  /\ [](iters + Val(self) <= Val(self0))

C9_Witness == pc = "done" /\ rhs >= 2 /\ iters >= 3

\* C10 as stated: at most 256/128 = 2 iterations of the fold loop, each of
\* which strictly reduces the bit-length of the 256-bit value.
C10_Original ==
  [][IsFold => /\ iters' <= WidthRatio
               /\ BitLen(Val(self')) < BitLen(Val(self))]_vars

\* C10 amended: the number of iterations is bounded by the limb width plus 2,
\* whatever the operands, and no iteration increases the bit-length of the
\* 256-bit value or leaves the high limb above half (rounded up) of what it was.
C10_IterationBound ==
  /\ [](iters <= Bits + 2)
  /\ [][IsFold => /\ BitLen(Val(self')) <= BitLen(Val(self))
                  /\ 2 * self'.high <= self.high + 1]_vars

\* More than 2 iterations, one of which kept the bit-length.
C10_Witness ==
  /\ pc = "loop" /\ iters > WidthRatio
  /\ self.high # 0 /\ BitLen(Val(fold_self(self, rhs))) = BitLen(Val(self))

\* ------------------------------------------------------------------------
\* multiply_by_rational_with_rounding and multiply_by_rational, one call each
\* ------------------------------------------------------------------------
InitArgs ==
  /\ pc = "call" /\ out = None
  /\ a \in DenseSamples /\ b \in Samples /\ c \in DenseSamples
  /\ NoDiv /\ NoGcd /\ NoSqrt

InitRounding == InitArgs /\ r \in Roundings

CallRounding ==
  /\ pc = "call"
  /\ out' = multiply_by_rational_with_rounding(a, b, c, r)
  /\ pc' = "done"
  /\ UNCHANGED <<mulVars, divVars, gcdVars, sqrtVars>>

SpecRounding == InitRounding /\ [][CallRounding]_vars

InitLegacy == InitArgs /\ r = "Nearest"

CallLegacy ==
  /\ pc = "call"
  /\ out' = multiply_by_rational(a, b, c)
  /\ pc' = "done"
  /\ UNCHANGED <<mulVars, divVars, gcdVars, sqrtVars>>

SpecLegacy == InitLegacy /\ [][CallLegacy]_vars

\* ------------------------------------------------------------------------
\* Properties of multiply_by_rational_with_rounding
\* ------------------------------------------------------------------------
\* The exactly rounded value of m * k / d, in unbounded arithmetic.
ExactRounded(m, k, d, rounding) ==
  LET p == m * k
  IN  CASE rounding = "Down" ->
             CHOOSE v \in (p \div d) - 1 .. (p \div d) + 1 : v * d <= p /\ p < (v + 1) * d
        [] rounding = "Up" ->
             CHOOSE v \in (p \div d) - 1 .. (p \div d) + 1 : (v - 1) * d < p /\ p <= v * d
        [] rounding = "Nearest" ->
             (p \div d) + (IF p % d >= (d \div 2) + (d % 2) THEN 1 ELSE 0)

\* C1: for c >= 1 the call returns Some(v) exactly when the exactly rounded
\* value of a*b/c fits the word, v being that value (floor for Down, ceiling
\* for Up, floor plus 1 iff a*b mod c >= c/2 + c%2 for Nearest), and None
\* otherwise; never a wrapped value.
C1_ExactlyRounded ==
  (pc = "done" /\ c >= 1) =>
    out = IF ExactRounded(a, b, c, r) <= MAX
            THEN Some(ExactRounded(a, b, c, r))
            ELSE None

\* The quotient is the largest word and rounding adds 1: None.
C1_Witness ==
  /\ pc = "done" /\ c >= 1 /\ r = "Nearest"
  /\ (a * b) \div c = MAX
  /\ ExactRounded(a, b, c, r) = MAX + 1
  /\ out = None

\* C7: with a zero divisor the call panics, whatever a, b and the rounding.
C7_ZeroDivisorPanics == (pc = "done" /\ c = 0) => out = Panic

C7_Witness == pc = "done" /\ c = 0 /\ a = 0 /\ b > 0 /\ r = "Up" /\ out = Panic

\* ------------------------------------------------------------------------
\* Properties of multiply_by_rational
\* ------------------------------------------------------------------------
\* TRUE iff multiply_by_rational(m, k, d) takes the BigUint branch.
TakesFallback(m, k, d) ==
  /\ m # 0 /\ k # 0
  /\ checked_mul(reduced(m, k, d).a, reduced(m, k, d).b).tag = "None"

Max1(d) == IF d < 1 THEN 1 ELSE d

\* Round-to-nearest as the fallback states it: q + 1 iff r > floor(c / 2).
NearestOf(m, k, d) ==
  ((m * k) \div d) + (IF (m * k) % d > d \div 2 THEN 1 ELSE 0)

\* C2: for c # 0, multiply_by_rational(a, b, c) and
\* multiply_by_rational_with_rounding(a, b, c, Nearest) fail on the same
\* inputs and return the same value when both succeed.
C2_SameAsNearest ==
  (pc = "done" /\ c # 0) =>
    LET xr == multiply_by_rational_with_rounding(a, b, c, "Nearest")
    IN  /\ (xr.tag = "Some") <=> (out.tag = "Ok")
        /\ (xr.tag = "Some" /\ out.tag = "Ok") => xr.val = out.val

\* C3: when the BigUint fallback is taken the result is a*b/c rounded to
\* nearest (q + 1 iff r > floor(c/2)), for a one-limb c as for a longer one,
\* and Err exactly when that value does not fit the word.
C3_FallbackNearest ==
  (pc = "done" /\ TakesFallback(a, b, c)) =>
    out = IF NearestOf(a, b, Max1(c)) <= MAX
            THEN Ok(NearestOf(a, b, Max1(c)))
            ELSE Err

\* C4: when a*b fits the word the call returns Ok(floor(a*b / max(c, 1))).
C4_NativeFloor ==
  (pc = "done" /\ a * b <= MAX) => out = Ok((a * b) \div Max1(c))

\* b > a is swapped, then the larger operand is not a multiple of c but the
\* smaller is, and is divided first.
C4_Witness ==
  /\ pc = "done" /\ a * b <= MAX
  /\ b > a /\ c > 1 /\ b % c # 0 /\ a % c = 0 /\ a > 0
  /\ out = Ok((a * b) \div c)

\* ------------------------------------------------------------------------
\* gcd, one call or return per step
\* ------------------------------------------------------------------------
InitGcd ==
  /\ pc = "gcd" /\ out = None
  /\ a \in DenseSamples /\ b \in DenseSamples
  /\ a0 = a /\ b0 = b /\ shifts = 0
  /\ c = 0 /\ r = "Down"
  /\ NoDiv /\ NoSqrt

\* Arms `x == y => y` and `(0, x) | (x, 0) => x`.
GcdReturn ==
  /\ pc = "gcd"
  /\ gcd_returns(a, b)
  /\ out' = Some(gcd_base(a, b))
  /\ pc' = IF shifts = 0 THEN "done" ELSE "unwind"
  /\ UNCHANGED <<mulVars, divVars, gcdVars, sqrtVars>>

\* The other arms: the recursive call.
GcdCall ==
  /\ pc = "gcd"
  /\ ~gcd_returns(a, b)
  /\ a' = gcd_call(a, b).a
  /\ b' = gcd_call(a, b).b
  /\ shifts' = shifts + (IF gcd_call(a, b).shl THEN 1 ELSE 0)
  /\ UNCHANGED <<pc, out, c, r, a0, b0, divVars, sqrtVars>>

\* A caller of the arm `gcd(x >> 1, y >> 1) << 1` gets its result.
GcdUnwind ==
  /\ pc = "unwind"
  /\ out' = Some(shl1(out.val))
  /\ shifts' = shifts - 1
  /\ pc' = IF shifts = 1 THEN "done" ELSE "unwind"
  /\ UNCHANGED <<mulVars, a0, b0, divVars, sqrtVars>>

NextGcd == GcdReturn \/ GcdCall \/ GcdUnwind

SpecGcd == InitGcd /\ [][NextGcd]_vars

\* ------------------------------------------------------------------------
\* sqrt, one loop iteration per step
\* ------------------------------------------------------------------------
InitSqrt ==
  /\ pc = "sqrt" /\ out = None
  /\ n0 \in Word /\ n = n0 /\ bit = 0 /\ result = 0
  /\ NoArgs /\ NoDiv /\ NoGcd

\* `if n == 0 { return 0 }`, else compute shift and bit.
SqrtEnter ==
  /\ pc = "sqrt"
  /\ IF n = 0
       THEN /\ out' = Some(0)
            /\ pc' = "done"
            /\ bit' = bit
       ELSE /\ out' = out
            /\ pc' = "loop"
            /\ bit' = 2 ^ sqrt_shift(n)
  /\ result' = 0
  /\ UNCHANGED <<mulVars, divVars, gcdVars, n, n0>>

\* One iteration of `while bit != 0`.  An overflowing `+` panics or wraps,
\* as the build decides.
SqrtIter ==
  /\ pc = "loop"
  /\ bit # 0
  /\ LET sum  == result + bit
         over == sum > MAX \/ (n >= sum % Modulus /\ (result \div 2) + bit > MAX)
     IN  \E build \in IF over THEN {"wraps", "panics"} ELSE {"exact"} :
           IF build = "panics"
             THEN /\ out' = Panic /\ pc' = "done"
                  /\ wrapped' = TRUE
                  /\ UNCHANGED <<n, result, bit>>
             ELSE /\ IF n >= sum % Modulus
                       THEN /\ n' = n - (sum % Modulus)
                            /\ result' = ((result \div 2) + bit) % Modulus
                       ELSE /\ n' = n
                            /\ result' = result \div 2
                  /\ bit' = bit \div 4
                  /\ wrapped' = (wrapped \/ over)
                  /\ UNCHANGED <<pc, out>>
  /\ UNCHANGED <<mulVars, self, rhs, x, self0, iters, gcdVars, n0>>

\* Loop exit: `result`.
SqrtReturn ==
  /\ pc = "loop"
  /\ bit = 0
  /\ out' = Some(result)
  /\ pc' = "done"
  /\ UNCHANGED <<mulVars, divVars, gcdVars, sqrtVars>>

NextSqrt == SqrtEnter \/ SqrtIter \/ SqrtReturn

SpecSqrt == InitSqrt /\ [][NextSqrt]_vars

\* ------------------------------------------------------------------------
\* Properties of gcd and sqrt
\* ------------------------------------------------------------------------
CommonDivisor(d, m, k) == m % d = 0 /\ k % d = 0

\* C5: gcd returns the greatest common divisor (gcd(x, 0) = gcd(0, x) = x),
\* every recursive call is on operands whose sum is strictly smaller than the
\* caller's, and a call always either returns or recurses: it terminates.
C5_GcdCorrect ==
  /\ [](pc = "done" =>
          /\ out.tag = "Some"
          /\ a0 = 0 => out.val = b0
          /\ b0 = 0 => out.val = a0
          /\ (a0 # 0 \/ b0 # 0) =>
               /\ out.val >= 1
               /\ CommonDivisor(out.val, a0, b0)
               /\ \A d \in out.val + 1 .. MAX : ~CommonDivisor(d, a0, b0))
  /\ [][(pc = "gcd" /\ pc' = "gcd") => a' + b' < a + b]_vars
  /\ [](pc = "gcd" => ENABLED (GcdReturn \/ GcdCall))

\* A run through the even/even arm (twice), the even/odd arm and the
\* odd/odd arm, returning a divisor that is neither operand.
C5_Witness ==
  /\ pc = "done" /\ out.tag = "Some"
  /\ a0 % 4 = 0 /\ b0 % 4 = 0 /\ (a0 \div 4) % 2 = 0 /\ (b0 \div 4) % 2 = 1
  /\ out.val > 4 /\ out.val # a0 /\ out.val # b0

\* C6: sqrt returns the floor square root (sqrt(0) = 0) and no addition or
\* subtraction of the loop overflows.
C6_FloorSqrt ==
  /\ ~wrapped
  /\ pc = "done" =>
       /\ out.tag = "Some"
       /\ out.val * out.val <= n0
       /\ n0 < (out.val + 1) * (out.val + 1)
       /\ n0 = 0 => out.val = 0

C6_Witness == pc = "done" /\ n0 = MAX /\ out = Some(HalfModulus - 1)

====
